---- MODULE Spec2Model ----
(***************************************************************************)
(* The offline-first synchronization layer of the note-taking client:      *)
(* the local durable store (IndexedDB object stores notes, notebooks,      *)
(* sync_queue), the entity repositories (useOfflineNotes,                  *)
(* useOfflineNotebooks) and the synchronization engine (SyncManager).      *)
(*                                                                         *)
(* Records are modelled as TLA+ records whose field sets vary the way the  *)
(* JavaScript objects do: a spread {...a, f: v} is Spread(a, [f |-> v]),   *)
(* and `delete item.local_updated_at` removes the field.  A note carries   *)
(* the domain fields title and content, a notebook the domain field name   *)
(* (notebook_id, is_favorite, description and color are payload that no    *)
(* branch of the modelled code reads, and are left out).                   *)
(*                                                                         *)
(* Time is one clock, `now`, in milliseconds: every `new Date()` and       *)
(* `Date.now()` of a handler reads it, and Tick advances it between        *)
(* handlers, so two handlers may or may not run in the same millisecond.   *)
(***************************************************************************)
EXTENDS Integers, Sequences, FiniteSets, TLC

\* ----------------------------------------------------------------- bounds
MaxTime == 1      \* the clock runs over 0..MaxTime
MaxReplayTime == 2  \* the clock of the replay scenarios runs over 0..MaxReplayTime
MaxIds == 1       \* size of the pool crypto.randomUUID() draws from
MaxQueue == 2     \* mutations are not started with MaxQueue entries queued
MaxRuns == 2      \* performFullSync calls one hook instance has in flight at most

Ids == 1..MaxIds
NewVals == {"a"}      \* the field values a create is called with
EditVals == {"b"}     \* the field values an update is called with
Tables == {"notes", "notebooks"}
NoUser == "none"
UserId == "u1"

\* useAuth().user: the notes application is rendered for a signed-in user
user == UserId

VARIABLES now, isOnline, offlineStorage, db, supabase, usedIds, last

\* The state of the mounted instances of useOfflineNotes: the syncManager
\* and isSyncing state of each, the values the callbacks of its last render
\* closed over, and its performFullSync calls in flight by phase.
VARIABLES syncManager, isSyncing, closure, inflight

hookVars == <<syncManager, isSyncing, closure, inflight>>

\* One performFullSync call followed through its awaits: the phase it is in,
\* the items of its snapshot still to process and the stage of the first of
\* them, the rows its pull selected, the conflicts it recorded, and the
\* updates of a repository that ran while it was in flight.
VARIABLE run

vars == <<now, isOnline, offlineStorage, db, supabase, usedIds, last, hookVars, run>>

\* ------------------------------------------------------- object helpers
\* {...rec, ...patch}
Spread(rec, patch) == patch @@ rec

\* delete rec[f]
Omit(rec, f) == [k \in DOMAIN rec \ {f} |-> rec[k]]

\* an object store keyed by id: put overwrites in place
Put(store, key, value) ==
  [k \in DOMAIN store \cup {key} |-> IF k = key THEN value ELSE store[k]]

Del(store, key) == [k \in DOMAIN store \ {key} |-> store[k]]

\* store.get(key): the record, or undefined (the empty set)
Get(store, key) == IF key \in DOMAIN store THEN {store[key]} ELSE {}

EmptyStore == <<>>

\* the domain fields of a table's records
DomainFields(table) == IF table = "notes" THEN {"title", "content"} ELSE {"name"}

\* ------------------------------------------------------- remote store
\* The columns of the remote tables that the model keeps.
RemoteColumns(table) ==
  {"id", "user_id", "updated_at"} \cup DomainFields(table)

\* supabase.from(table).insert(row): the primary key rejects a second row
\* with the same id; `ok` is whether the request gets through.
RemoteInsert(remote, table, row, ok) ==
  IF ~ok \/ row.id \in DOMAIN remote[table]
  THEN [remote |-> remote, error |-> TRUE, data |-> {}]
  ELSE LET stored == [c \in RemoteColumns(table) |-> row[c]]
       IN [remote |-> [remote EXCEPT ![table] = Put(@, row.id, stored)],
           error |-> FALSE, data |-> {stored}]

\* supabase.from(table).update(fields).eq('id', id): no row matching is not
\* an error; the BEFORE UPDATE trigger stamps updated_at = now().
RemoteUpdate(remote, table, id, fields, ok) ==
  IF ~ok THEN [remote |-> remote, error |-> TRUE, data |-> {}]
  ELSE IF id \notin DOMAIN remote[table]
  THEN [remote |-> remote, error |-> FALSE, data |-> {}]
  ELSE LET old == remote[table][id]
           new == [c \in DOMAIN old |->
                     IF c = "updated_at" THEN now
                     ELSE IF c \in DOMAIN fields THEN fields[c] ELSE old[c]]
       IN [remote |-> [remote EXCEPT ![table] = Put(@, id, new)],
           error |-> FALSE, data |-> {new}]

\* mutant: a delete that matches no row is reported as an error
RemoteDelete_MissingIsError(remote, table, id, ok) ==
  IF ~ok \/ id \notin DOMAIN remote[table] THEN [remote |-> remote, error |-> TRUE]
  ELSE [remote |-> [remote EXCEPT ![table] = Del(@, id)], error |-> FALSE]

\* supabase.from(table).delete().eq('id', id)
RemoteDelete(remote, table, id, ok) ==
  IF ~ok THEN [remote |-> remote, error |-> TRUE]
  ELSE [remote |-> [remote EXCEPT ![table] = Del(@, id)], error |-> FALSE]

\* ------------------------------------------------------- OfflineStorage
QueueKey(table, type, id) == <<table, type, id, now>>

AddToSyncQueue(d, table, type, data) ==
  LET key == QueueKey(table, type, data.id)
      queueItem == [id |-> key, type |-> type, table |-> table, data |-> data,
                    timestamp |-> now]
  IN [d EXCEPT !.sync_queue = Put(@, key, queueItem)]

\* mutant: saveNote that enqueues the update but does not put the record
SaveNote_NoPut(d, table, note) ==
  LET noteData == Spread(note, [local_updated_at |-> now, sync_status |-> "pending"])
  IN [db |-> AddToSyncQueue(d, table, "update", noteData),
      noteData |-> noteData]

\* saveNote / saveNotebook: returns the store and the saved record
SaveNote(d, table, note) ==
  LET noteData == Spread(note, [local_updated_at |-> now, sync_status |-> "pending"])
  IN [db |-> AddToSyncQueue([d EXCEPT ![table] = Put(@, noteData.id, noteData)],
                            table, "update", noteData),
      noteData |-> noteData]

\* createNote / createNotebook of OfflineStorage
StorageCreateNote(d, table, note) ==
  LET noteData == Spread(note, [local_updated_at |-> now, sync_status |-> "pending"])
  IN [db |-> AddToSyncQueue([d EXCEPT ![table] = Put(@, noteData.id, noteData)],
                            table, "create", noteData),
      noteData |-> noteData]

StorageDeleteNote(d, table, id) ==
  IF id \in DOMAIN d[table]
  THEN AddToSyncQueue([d EXCEPT ![table] = Del(@, id)], table, "delete", [id |-> id])
  ELSE d

RemoveSyncQueueItem(d, key) == [d EXCEPT !.sync_queue = Del(@, key)]

\* mutant: markAsSynced without `delete item.local_updated_at`
MarkAsSynced_KeepLocalTime(d, table, id) ==
  IF id \in DOMAIN d[table]
  THEN [d EXCEPT ![table] = Put(@, id, Spread(d[table][id], [sync_status |-> "synced"]))]
  ELSE d

\* mutant: markAsSynced that does not write the record back
MarkAsSynced_NoPut(d, table, id) == d

\* mutant: markAsSynced without the `if (item)` check, writing a record
\* for an id the store does not hold
MarkAsSynced_Upsert(d, table, id) ==
  LET stored == IF id \in DOMAIN d[table] THEN d[table][id] ELSE [id |-> id]
      item == Omit(Spread(stored, [sync_status |-> "synced"]), "local_updated_at")
  IN [d EXCEPT ![table] = Put(@, id, item)]

\* markAsSynced(table, id)
MarkAsSynced(d, table, id) ==
  IF id \in DOMAIN d[table]
  THEN LET item == Omit(Spread(d[table][id], [sync_status |-> "synced"]),
                        "local_updated_at")
       IN [d EXCEPT ![table] = Put(@, id, item)]
  ELSE d

RECURSIVE BulkUpdateFromServer(_, _, _)
BulkUpdateFromServer(d, table, items) ==
  IF items = {} THEN d
  ELSE LET item == CHOOSE i \in items : TRUE
       IN BulkUpdateFromServer(
            [d EXCEPT ![table] = Put(@, item.id, Spread(item, [sync_status |-> "synced"]))],
            table, items \ {item})

\* ------------------------------------------------------- the outbox order
\* IndexedDB returns getAll() in key order; the key is the string
\* `${table}-${type}-${data.id}-${Date.now()}`.
TableRank(table) == IF table = "notebooks" THEN 0 ELSE 1

TypeRank(type) == IF type = "create" THEN 0 ELSE IF type = "delete" THEN 1 ELSE 2

KeyLess(a, b) ==
  LET ra == <<TableRank(a[1]), TypeRank(a[2]), a[3], a[4]>>
      rb == <<TableRank(b[1]), TypeRank(b[2]), b[3], b[4]>>
  IN \E i \in 1..4 : ra[i] < rb[i] /\ \A j \in 1..(i - 1) : ra[j] = rb[j]

RECURSIVE SortKeys(_)
SortKeys(keys) ==
  IF keys = {} THEN <<>>
  ELSE LET first == CHOOSE k \in keys : \A j \in keys \ {k} : KeyLess(k, j)
       IN <<first>> \o SortKeys(keys \ {first})

\* getSyncQueue(): the queue items in key order
GetSyncQueue(d) ==
  LET keys == SortKeys(DOMAIN d.sync_queue)
  IN [i \in 1..Len(keys) |-> d.sync_queue[keys[i]]]

\* ------------------------------------------------------- SyncManager
\* syncToServer groups the snapshot by `${item.table}-${item.type}`;
\* Object.entries yields the groups in the order their first item appeared.
GroupKey(item) == <<item.table, item.type>>

RECURSIVE OperationKeys(_, _)
OperationKeys(syncQueue, seen) ==
  IF syncQueue = <<>> THEN <<>>
  ELSE LET key == GroupKey(Head(syncQueue))
       IN IF key \in seen THEN OperationKeys(Tail(syncQueue), seen)
          ELSE <<key>> \o OperationKeys(Tail(syncQueue), seen \cup {key})

RECURSIVE ConcatGroups(_, _)
ConcatGroups(syncQueue, keys) ==
  IF keys = <<>> THEN <<>>
  ELSE SelectSeq(syncQueue, LAMBDA item : GroupKey(item) = Head(keys))
         \o ConcatGroups(syncQueue, Tail(keys))

\* the order in which the nested loops of syncToServer visit the items
ProcessingOrder(syncQueue) == ConcatGroups(syncQueue, OperationKeys(syncQueue, {}))

\* new Date(data.local_updated_at || data.updated_at)
LocalTime(data) ==
  IF "local_updated_at" \in DOMAIN data THEN data.local_updated_at ELSE data.updated_at

\* mutant: the conflict check never finds the server newer
ServerIsNewer_Never(serverTime, localTime) == FALSE

\* mutant: a tie counts as the server being newer
ServerIsNewer_OrEqual(serverTime, localTime) == serverTime >= localTime

\* serverTime > localTime
ServerIsNewer(serverTime, localTime) == serverTime > localTime

\* The outcome of the remote requests of one queue item: "ok" when the
\* remote store answers them, "error" when it rejects them (the first
\* request the item issues then throws: createError, fetchError or
\* updateError, deleteError).
NetOutcomes == {"ok", "error"}

\* the object the update branch hands to .update(): { ...data, updated_at }
UpdatePayload(data) == Spread(data, [updated_at |-> now])

\* processOperation: the remote store afterwards, whether it threw, and
\* what it did (inserted, skipped, updated, deleted).
ProcessOperation(remote, table, type, data, net) ==
  CASE type = "create" ->
         LET r == RemoteInsert(remote, table, data, net = "ok")
         IN [remote |-> r.remote, error |-> r.error, did |-> "insert"]
    [] type = "update" ->
         IF net # "ok"
         THEN [remote |-> remote, error |-> TRUE, did |-> "fetch"]
         ELSE LET serverData == Get(remote[table], data.id)
              IN IF /\ serverData # {}
                    /\ \E s \in serverData : ServerIsNewer(s.updated_at, LocalTime(data))
                 THEN [remote |-> remote, error |-> FALSE, did |-> "skip"]
                 ELSE LET r == RemoteUpdate(remote, table, data.id,
                                            UpdatePayload(data), net = "ok")
                      IN [remote |-> r.remote, error |-> r.error, did |-> "update"]
    [] type = "delete" ->
         LET r == RemoteDelete(remote, table, data.id, net = "ok")
         IN [remote |-> r.remote, error |-> r.error, did |-> "delete"]

\* mutant: the queue item is removed before processOperation is awaited, so
\* a failed item is lost
ProcessItem_RemoveFirst(st, item, net) ==
  LET r == ProcessOperation(st.remote, item.table, item.type, item.data, net)
      event == [item |-> item.id,
                data |-> item.data,
                before |-> Get(st.remote[item.table], item.data.id),
                after |-> Get(r.remote[item.table], item.data.id),
                net |-> net,
                did |-> r.did,
                error |-> r.error]
  IN IF r.error
     THEN [st EXCEPT !.db = RemoveSyncQueueItem(@, item.id),
                     !.conflicts = Append(@, item.id),
                     !.log = Append(@, event)]
     ELSE [remote |-> r.remote,
           db |-> MarkAsSynced(RemoveSyncQueueItem(st.db, item.id),
                               item.table, item.data.id),
           conflicts |-> st.conflicts,
           log |-> Append(st.log, event)]

\* The body of the inner loop for one item: processOperation, then
\* removeSyncQueueItem and markAsSynced, or the catch that records the
\* conflict.  st carries the remote store, the local store, the conflicts
\* and a log of what each item did to the remote record of its entity.
ProcessItem(st, item, net) ==
  LET r == ProcessOperation(st.remote, item.table, item.type, item.data, net)
      event == [item |-> item.id,
                data |-> item.data,
                before |-> Get(st.remote[item.table], item.data.id),
                after |-> Get(r.remote[item.table], item.data.id),
                net |-> net,
                did |-> r.did,
                error |-> r.error]
  IN IF r.error
     THEN [st EXCEPT !.conflicts = Append(@, item.id),
                     !.log = Append(@, event)]
     ELSE [remote |-> r.remote,
           db |-> MarkAsSynced(RemoveSyncQueueItem(st.db, item.id),
                               item.table, item.data.id),
           conflicts |-> st.conflicts,
           log |-> Append(st.log, event)]

\* mutant: the first item that fails ends the loops
RECURSIVE DrainItems_StopOnError(_, _, _)
DrainItems_StopOnError(items, st, net) ==
  IF items = <<>> THEN st
  ELSE LET next == ProcessItem(st, Head(items), net[Head(items).id])
       IN IF next.conflicts # st.conflicts THEN next
          ELSE DrainItems_StopOnError(Tail(items), next, net)

\* the nested loops of syncToServer over the items in processing order
RECURSIVE DrainItems(_, _, _)
DrainItems(items, st, net) ==
  IF items = <<>> THEN st
  ELSE DrainItems(Tail(items), ProcessItem(st, Head(items), net[Head(items).id]), net)

\* mutant: a drain with a failed item reports success: false
SyncToServer_FailOnConflict(d, remote, net) ==
  IF ~isOnline
  THEN [db |-> d, remote |-> remote, success |-> FALSE, conflicts |-> <<>>,
        log |-> <<>>]
  ELSE LET syncQueue == GetSyncQueue(d)
           st == DrainItems(ProcessingOrder(syncQueue),
                            [remote |-> remote, db |-> d, conflicts |-> <<>>,
                             log |-> <<>>],
                            net)
       IN [db |-> st.db, remote |-> st.remote, success |-> st.conflicts = <<>>,
           conflicts |-> st.conflicts, log |-> st.log]

\* syncToServer: the early return without the network, else the drain of
\* the snapshot that getSyncQueue returned
SyncToServer(d, remote, net) ==
  IF ~isOnline
  THEN [db |-> d, remote |-> remote, success |-> FALSE, conflicts |-> <<>>,
        log |-> <<>>]
  ELSE LET syncQueue == GetSyncQueue(d)
           st == DrainItems(ProcessingOrder(syncQueue),
                            [remote |-> remote, db |-> d, conflicts |-> <<>>,
                             log |-> <<>>],
                            net)
       IN [db |-> st.db, remote |-> st.remote, success |-> TRUE,
           conflicts |-> st.conflicts, log |-> st.log]

\* select('*').eq('user_id', userId)
SelectByUser(remote, table, userId) ==
  {remote[table][id] : id \in {i \in DOMAIN remote[table] : remote[table][i].user_id = userId}}

\* mutant: each table is written as soon as its own select succeeded
SyncFromServer_TableByTable(d, remote, userId, online, notesError, notebooksError, storeError) ==
  IF ~online THEN d
  ELSE IF notesError THEN d
  ELSE IF storeError THEN d
  ELSE IF notebooksError
  THEN BulkUpdateFromServer(d, "notes", SelectByUser(remote, "notes", userId))
  ELSE BulkUpdateFromServer(
         BulkUpdateFromServer(d, "notes", SelectByUser(remote, "notes", userId)),
         "notebooks", SelectByUser(remote, "notebooks", userId))

\* syncFromServer: online is what isNetworkAvailable() answers when it is
\* called; a failed select or a failed write of the local store ends in the
\* catch, which logs and returns.
SyncFromServer(d, remote, userId, online, notesError, notebooksError, storeError) ==
  IF ~online THEN d
  ELSE IF notesError \/ notebooksError THEN d
  ELSE IF storeError THEN d
  ELSE BulkUpdateFromServer(
         BulkUpdateFromServer(d, "notes", SelectByUser(remote, "notes", userId)),
         "notebooks", SelectByUser(remote, "notebooks", userId))

\* ------------------------------------------------------- handler results
\* What the last handler was called with and what it returned; ret is the
\* returned entity as a set (empty for null / undefined); found is whether
\* the storage's deleteNote found the record it was asked to delete;
\* pullError is whether a select of the pull failed, storeError whether an
\* operation of the local store failed during the call, and threw whether
\* the call ended with an exception.
NoLast ==
  [op |-> "none", table |-> "none", id |-> 0, args |-> <<>>, path |-> "none",
   ret |-> {}, requests |-> 0, success |-> FALSE, conflicts |-> <<>>,
   log |-> <<>>, pulled |-> FALSE, found |-> FALSE,
   pullError |-> FALSE, storeError |-> FALSE, threw |-> FALSE]

NoteInputs(table) ==
  IF table = "notes" THEN [title : NewVals, content : NewVals] ELSE [name : NewVals]

UpdateInputs(table) ==
  IF table = "notes"
  THEN [title : EditVals] \cup [content : EditVals]
  ELSE [name : EditVals]

\* ------------------------------------------------------- repositories
\* mutant: createNote whose catch rethrows instead of creating offline
CreateIn_Rethrow(table, noteData, id, remoteOk) ==
  IF ~offlineStorage[table] \/ user = NoUser
  THEN /\ last' = [NoLast EXCEPT !.op = "create", !.table = table,
                                 !.args = noteData, !.path = "guard"]
       /\ UNCHANGED <<db, supabase, usedIds>>
  ELSE LET newNote == Spread(noteData, [id |-> id, user_id |-> user,
                                        updated_at |-> now])
           ins == RemoteInsert(supabase, table, newNote, remoteOk)
       IN /\ usedIds' = usedIds \cup {id}
          /\ IF isOnline /\ ~ins.error
             THEN LET data == CHOOSE r \in ins.data : TRUE
                      saved == SaveNote(db, table, Spread(data, [sync_status |-> "synced"]))
                  IN /\ db' = saved.db
                     /\ supabase' = ins.remote
                     /\ last' = [NoLast EXCEPT !.op = "create", !.table = table,
                                   !.id = id, !.args = noteData, !.path = "online",
                                   !.ret = {data}, !.requests = 1]
             ELSE IF isOnline
             THEN /\ UNCHANGED <<db, supabase>>
                  /\ last' = [NoLast EXCEPT !.op = "create", !.table = table,
                                !.id = id, !.args = noteData, !.path = "fallback",
                                !.requests = 1, !.threw = TRUE]
             ELSE LET saved == StorageCreateNote(db, table, newNote)
                  IN /\ db' = saved.db
                     /\ UNCHANGED supabase
                     /\ last' = [NoLast EXCEPT !.op = "create", !.table = table,
                                   !.id = id, !.args = noteData, !.path = "offline",
                                   !.ret = {saved.noteData}]

\* createNote of useOfflineNotes / createNotebook of useOfflineNotebooks
CreateIn(table, noteData, id, remoteOk) ==
  IF ~offlineStorage[table] \/ user = NoUser
  THEN /\ last' = [NoLast EXCEPT !.op = "create", !.table = table,
                                 !.args = noteData, !.path = "guard"]
       /\ UNCHANGED <<db, supabase, usedIds>>
  ELSE LET newNote == Spread(noteData, [id |-> id, user_id |-> user,
                                        updated_at |-> now])
           ins == RemoteInsert(supabase, table, newNote, remoteOk)
       IN /\ usedIds' = usedIds \cup {id}
          /\ IF isOnline /\ ~ins.error
             THEN LET data == CHOOSE r \in ins.data : TRUE
                      saved == SaveNote(db, table, Spread(data, [sync_status |-> "synced"]))
                  IN /\ db' = saved.db
                     /\ supabase' = ins.remote
                     /\ last' = [NoLast EXCEPT !.op = "create", !.table = table,
                                   !.id = id, !.args = noteData, !.path = "online",
                                   !.ret = {data}, !.requests = 1]
             ELSE LET saved == StorageCreateNote(db, table, newNote)
                  IN /\ db' = saved.db
                     /\ UNCHANGED supabase
                     /\ last' = [NoLast EXCEPT !.op = "create", !.table = table,
                                   !.id = id, !.args = noteData,
                                   !.path = IF isOnline THEN "fallback" ELSE "offline",
                                   !.ret = {saved.noteData},
                                   !.requests = IF isOnline THEN 1 ELSE 0]

\* .update(fields).eq('id', id).select().single(): no row is an error
RemoteUpdateSingle(remote, table, id, fields, ok) ==
  LET r == RemoteUpdate(remote, table, id, fields, ok)
  IN [r EXCEPT !.error = r.error \/ r.data = {}]

\* updateNote / updateNotebook once the entity was found locally: the
\* online attempt, and the offline path or the catch's fallback
UpdateExisting(table, id, updates, remoteOk) ==
  LET existingNote == db[table][id]
      updatedNote == Spread(Spread(existingNote, updates), [updated_at |-> now])
      upd == RemoteUpdateSingle(supabase, table, id,
                                Spread(updates, [updated_at |-> updatedNote.updated_at]),
                                remoteOk)
  IN IF isOnline /\ ~upd.error
     THEN LET data == CHOOSE r \in upd.data : TRUE
              saved == SaveNote(db, table, Spread(data, [sync_status |-> "synced"]))
          IN /\ db' = saved.db
             /\ supabase' = upd.remote
             /\ last' = [NoLast EXCEPT !.op = "update", !.table = table,
                           !.id = id, !.args = updates, !.path = "online",
                           !.ret = {data}, !.requests = 1]
     ELSE LET saved == SaveNote(db, table, updatedNote)
          IN /\ db' = saved.db
             /\ UNCHANGED supabase
             /\ last' = [NoLast EXCEPT !.op = "update", !.table = table,
                           !.id = id, !.args = updates,
                           !.path = IF isOnline THEN "fallback" ELSE "offline",
                           !.ret = {saved.noteData},
                           !.requests = IF isOnline THEN 1 ELSE 0]

\* mutant: updateNote without the `if (!existingNote) return null` check
UpdateIn_NoCheck(table, id, updates, remoteOk) ==
  IF ~offlineStorage[table] \/ user = NoUser
  THEN /\ last' = [NoLast EXCEPT !.op = "update", !.table = table, !.id = id,
                                 !.args = updates, !.path = "guard"]
       /\ UNCHANGED <<db, supabase>>
  ELSE IF Get(db[table], id) = {}
  THEN LET saved == SaveNote(db, table, Spread(updates, [id |-> id, updated_at |-> now]))
       IN /\ db' = saved.db
          /\ UNCHANGED supabase
          /\ last' = [NoLast EXCEPT !.op = "update", !.table = table, !.id = id,
                        !.args = updates, !.path = "absent",
                        !.ret = {saved.noteData}]
  ELSE UpdateExisting(table, id, updates, remoteOk)

\* updateNote of useOfflineNotes / updateNotebook of useOfflineNotebooks
UpdateIn(table, id, updates, remoteOk) ==
  IF ~offlineStorage[table] \/ user = NoUser
  THEN /\ last' = [NoLast EXCEPT !.op = "update", !.table = table, !.id = id,
                                 !.args = updates, !.path = "guard"]
       /\ UNCHANGED <<db, supabase>>
  ELSE IF Get(db[table], id) = {}
  THEN /\ last' = [NoLast EXCEPT !.op = "update", !.table = table, !.id = id,
                                 !.args = updates, !.path = "absent"]
       /\ UNCHANGED <<db, supabase>>
  ELSE UpdateExisting(table, id, updates, remoteOk)

\* mutant: deleteNote whose catch only logs the remote failure
DeleteIn_NoFallback(table, id, remoteOk) ==
  IF ~offlineStorage[table] \/ user = NoUser
  THEN /\ last' = [NoLast EXCEPT !.op = "delete", !.table = table, !.id = id,
                                 !.path = "guard"]
       /\ UNCHANGED <<db, supabase>>
  ELSE LET del == RemoteDelete(supabase, table, id, remoteOk)
       IN /\ db' = IF isOnline /\ del.error THEN db ELSE StorageDeleteNote(db, table, id)
          /\ supabase' = IF isOnline /\ ~del.error THEN del.remote ELSE supabase
          /\ last' = [NoLast EXCEPT !.op = "delete", !.table = table, !.id = id,
                        !.path = IF ~isOnline THEN "offline"
                                 ELSE IF del.error THEN "fallback" ELSE "online",
                        !.found = id \in DOMAIN db[table],
                        !.requests = IF isOnline THEN 1 ELSE 0]

\* deleteNote of useOfflineNotes / deleteNotebook of useOfflineNotebooks
DeleteIn(table, id, remoteOk) ==
  IF ~offlineStorage[table] \/ user = NoUser
  THEN /\ last' = [NoLast EXCEPT !.op = "delete", !.table = table, !.id = id,
                                 !.path = "guard"]
       /\ UNCHANGED <<db, supabase>>
  ELSE LET del == RemoteDelete(supabase, table, id, remoteOk)
       IN /\ db' = StorageDeleteNote(db, table, id)
          /\ supabase' = IF isOnline /\ ~del.error THEN del.remote ELSE supabase
          /\ last' = [NoLast EXCEPT !.op = "delete", !.table = table, !.id = id,
                        !.path = IF ~isOnline THEN "offline"
                                 ELSE IF del.error THEN "fallback" ELSE "online",
                        !.found = id \in DOMAIN db[table],
                        !.requests = IF isOnline THEN 1 ELSE 0]

\* archiveNote of useOfflineNotes / archiveNotebook of useOfflineNotebooks:
\* the body of the deleteNote it returns, recorded as an archive call
ArchiveIn(table, id, remoteOk) ==
  IF ~offlineStorage[table] \/ user = NoUser
  THEN /\ last' = [NoLast EXCEPT !.op = "archive", !.table = table, !.id = id,
                                 !.path = "guard"]
       /\ UNCHANGED <<db, supabase>>
  ELSE LET del == RemoteDelete(supabase, table, id, remoteOk)
       IN /\ db' = StorageDeleteNote(db, table, id)
          /\ supabase' = IF isOnline /\ ~del.error THEN del.remote ELSE supabase
          /\ last' = [NoLast EXCEPT !.op = "archive", !.table = table, !.id = id,
                        !.path = IF ~isOnline THEN "offline"
                                 ELSE IF del.error THEN "fallback" ELSE "online",
                        !.found = id \in DOMAIN db[table],
                        !.requests = IF isOnline THEN 1 ELSE 0]

\* mutant: performFullSync that pulls only after a successful drain
PerformFullSyncWith_PullOnSuccess(net, pullOnline, notesError, notebooksError, storeError) ==
  LET uploadResult == SyncToServer(db, supabase, net)
  IN /\ db' = IF uploadResult.success
               THEN SyncFromServer(uploadResult.db, uploadResult.remote, user,
                                   pullOnline, notesError, notebooksError, storeError)
               ELSE uploadResult.db
     /\ supabase' = uploadResult.remote
     /\ last' = [NoLast EXCEPT !.op = "performFullSync",
                   !.success = uploadResult.success,
                   !.conflicts = uploadResult.conflicts,
                   !.log = uploadResult.log,
                   !.requests = Len(uploadResult.log),
                   !.pulled = uploadResult.success /\ pullOnline /\ ~notesError
                              /\ ~notebooksError /\ ~storeError,
                   !.pullError = notesError \/ notebooksError,
                   !.storeError = storeError]

\* performFullSync(user.id): syncToServer, then syncFromServer; pullOnline
\* is the network status when syncFromServer starts.
PerformFullSyncWith(net, pullOnline, notesError, notebooksError, storeError) ==
  LET uploadResult == SyncToServer(db, supabase, net)
  IN /\ db' = SyncFromServer(uploadResult.db, uploadResult.remote, user,
                             pullOnline, notesError, notebooksError, storeError)
     /\ supabase' = uploadResult.remote
     /\ last' = [NoLast EXCEPT !.op = "performFullSync",
                   !.success = uploadResult.success,
                   !.conflicts = uploadResult.conflicts,
                   !.log = uploadResult.log,
                   !.requests = Len(uploadResult.log),
                   !.pulled = pullOnline /\ ~notesError /\ ~notebooksError
                              /\ ~storeError,
                   !.pullError = notesError \/ notebooksError,
                   !.storeError = storeError]

\* ------------------------------------------------------- actions
QueueHasRoom == Cardinality(DOMAIN db.sync_queue) < MaxQueue

\* a remote outcome is an input only when a request is issued
RemoteOutcomes == IF isOnline THEN BOOLEAN ELSE {TRUE}

Tick ==
  /\ now < MaxTime
  /\ now' = now + 1
  /\ last' = NoLast
  /\ UNCHANGED <<isOnline, offlineStorage, db, supabase, usedIds, hookVars, run>>

NetworkChange ==
  /\ isOnline' = ~isOnline
  /\ last' = NoLast
  /\ UNCHANGED <<now, offlineStorage, db, supabase, usedIds, hookVars, run>>

\* the initStorage effect of a hook: initOfflineDB and the two setters
InitStorage ==
  \E hook \in Tables :
    /\ ~offlineStorage[hook]
    /\ offlineStorage' = [offlineStorage EXCEPT ![hook] = TRUE]
    /\ last' = NoLast
    /\ UNCHANGED <<now, isOnline, db, supabase, usedIds, hookVars, run>>

createNote ==
  \E noteData \in NoteInputs("notes"), id \in Ids \ usedIds, remoteOk \in RemoteOutcomes :
    /\ QueueHasRoom
    /\ CreateIn("notes", noteData, id, remoteOk)
    /\ UNCHANGED <<now, isOnline, offlineStorage, hookVars, run>>

createNotebook ==
  \E noteData \in NoteInputs("notebooks"), id \in Ids \ usedIds, remoteOk \in RemoteOutcomes :
    /\ QueueHasRoom
    /\ CreateIn("notebooks", noteData, id, remoteOk)
    /\ UNCHANGED <<now, isOnline, offlineStorage, hookVars, run>>

updateNote ==
  \E id \in Ids, updates \in UpdateInputs("notes"), remoteOk \in RemoteOutcomes :
    /\ QueueHasRoom
    /\ UpdateIn("notes", id, updates, remoteOk)
    /\ UNCHANGED <<now, isOnline, offlineStorage, usedIds, hookVars, run>>

updateNotebook ==
  \E id \in Ids, updates \in UpdateInputs("notebooks"), remoteOk \in RemoteOutcomes :
    /\ QueueHasRoom
    /\ UpdateIn("notebooks", id, updates, remoteOk)
    /\ UNCHANGED <<now, isOnline, offlineStorage, usedIds, hookVars, run>>

deleteNote ==
  \E id \in Ids, remoteOk \in RemoteOutcomes :
    /\ QueueHasRoom
    /\ DeleteIn("notes", id, remoteOk)
    /\ UNCHANGED <<now, isOnline, offlineStorage, usedIds, hookVars, run>>

deleteNotebook ==
  \E id \in Ids, remoteOk \in RemoteOutcomes :
    /\ QueueHasRoom
    /\ DeleteIn("notebooks", id, remoteOk)
    /\ UNCHANGED <<now, isOnline, offlineStorage, usedIds, hookVars, run>>

\* archiveNote: `return deleteNote(id)`
archiveNote ==
  \E id \in Ids, remoteOk \in RemoteOutcomes :
    /\ QueueHasRoom
    /\ ArchiveIn("notes", id, remoteOk)
    /\ UNCHANGED <<now, isOnline, offlineStorage, usedIds, hookVars, run>>

\* archiveNotebook: `return deleteNotebook(id)`
archiveNotebook ==
  \E id \in Ids, remoteOk \in RemoteOutcomes :
    /\ QueueHasRoom
    /\ ArchiveIn("notebooks", id, remoteOk)
    /\ UNCHANGED <<now, isOnline, offlineStorage, usedIds, hookVars, run>>

\* the outcomes the requests of the queued items can have
NetInputs ==
  IF ~isOnline THEN {[k \in DOMAIN db.sync_queue |-> "ok"]}
  ELSE [DOMAIN db.sync_queue -> NetOutcomes]

\* what can go wrong in the pull: at most one of the two selects or the
\* write to the local store fails, and none without the network
PullInputs(pullOnline) ==
  {f \in [notesError : BOOLEAN, notebooksError : BOOLEAN, storeError : BOOLEAN] :
     /\ Cardinality({k \in DOMAIN f : f[k]}) <= 1
     /\ pullOnline \/ Cardinality({k \in DOMAIN f : f[k]}) = 0}

\* The network may come back between the drain and the pull.
performFullSync ==
  \E net \in NetInputs, pullOnline \in (IF isOnline THEN {TRUE} ELSE BOOLEAN) :
    \E f \in PullInputs(pullOnline) :
      /\ offlineStorage["notes"]
      /\ PerformFullSyncWith(net, pullOnline, f.notesError, f.notebooksError,
                             f.storeError)
      /\ isOnline' = pullOnline
      /\ UNCHANGED <<now, offlineStorage, usedIds, hookVars, run>>

\* ------------------------------------------------------- hook instances
\* The components that call useOfflineNotes(): each has its own state.
Hooks == {"Index", "NotesApp"}

NoClosure == [syncManager |-> FALSE, isOnline |-> FALSE, isSyncing |-> FALSE]

HookInit ==
  /\ syncManager = [h \in Hooks |-> FALSE]
  /\ isSyncing = [h \in Hooks |-> FALSE]
  /\ closure = [h \in Hooks |-> NoClosure]
  /\ inflight = [h \in Hooks |-> [drain |-> 0, pull |-> 0]]

NoRun ==
  [phase |-> "idle", items |-> <<>>, stage |-> "process",
   rows |-> [notes |-> {}, notebooks |-> {}], conflicts |-> <<>>, during |-> {}]

Init ==
  /\ now = 0
  /\ isOnline = TRUE
  /\ offlineStorage = [hook \in Tables |-> FALSE]
  /\ db = [notes |-> EmptyStore, notebooks |-> EmptyStore, sync_queue |-> EmptyStore]
  /\ supabase = [notes |-> EmptyStore, notebooks |-> EmptyStore,
                 archived_notes |-> EmptyStore, archived_notebooks |-> EmptyStore]
  /\ usedIds = {}
  /\ last = NoLast
  /\ HookInit
  /\ run = NoRun

Next ==
  \/ Tick
  \/ NetworkChange
  \/ InitStorage
  \/ createNote
  \/ createNotebook
  \/ updateNote
  \/ updateNotebook
  \/ deleteNote
  \/ deleteNotebook
  \/ archiveNote
  \/ archiveNotebook
  \/ performFullSync

Spec == Init /\ [][Next]_vars

\* ------------------------------------------------------- replay scenarios
\* The notes repository alone, over a longer clock: edits made at two
\* different times can be replayed by a drain at a third.
LateTick ==
  /\ now >= MaxTime /\ now < MaxReplayTime
  /\ now' = now + 1
  /\ last' = NoLast
  /\ UNCHANGED <<isOnline, offlineStorage, db, supabase, usedIds, hookVars, run>>

ReplayNext ==
  \/ Tick
  \/ LateTick
  \/ NetworkChange
  \/ InitStorage
  \/ createNote
  \/ updateNote
  \/ performFullSync

ReplaySpec == Init /\ [][ReplayNext]_vars

\* ------------------------------------------------------- sync triggers
\* The steps of the hook instances around performSync: the stores are left
\* alone, a performFullSync call is followed through its two awaits.
coreVars == <<now, offlineStorage, db, supabase, usedIds, last>>

HasRoom(h) == inflight[h].drain + inflight[h].pull < MaxRuns

\* performSync() of the render that closed over c: the guard reads the
\* closed-over values; setIsSyncing(true), then performFullSync is awaited
PerformSync(h, c) ==
  IF ~c.syncManager \/ user = NoUser \/ ~c.isOnline \/ c.isSyncing
  THEN UNCHANGED <<isSyncing, inflight>>
  ELSE /\ isSyncing' = [isSyncing EXCEPT ![h] = TRUE]
       /\ inflight' = [inflight EXCEPT ![h].drain = @ + 1]

\* the initStorage effect of one instance: setOfflineStorage, setSyncManager
HookInitStorage ==
  \E h \in Hooks :
    /\ ~syncManager[h]
    /\ syncManager' = [syncManager EXCEPT ![h] = TRUE]
    /\ UNCHANGED <<isSyncing, closure, inflight, isOnline, coreVars, run>>

\* A render of one instance after its state changed: the callbacks close
\* over the new values, and the effect with the dependencies
\* [offlineStorage, user, isOnline] runs when one of them changed.
Render ==
  \E h \in Hooks :
    LET c == [syncManager |-> syncManager[h], isOnline |-> isOnline,
              isSyncing |-> isSyncing[h]]
    IN /\ c # closure[h]
       /\ HasRoom(h)
       /\ closure' = [closure EXCEPT ![h] = c]
       /\ IF /\ c.syncManager # closure[h].syncManager \/ c.isOnline # closure[h].isOnline
             /\ c.syncManager /\ user # NoUser /\ c.isOnline
          THEN PerformSync(h, c)
          ELSE UNCHANGED <<isSyncing, inflight>>
       /\ UNCHANGED <<syncManager, isOnline, coreVars, run>>

\* handleNetworkRestored of one instance, on the 'network-restored' event
HandleNetworkRestored ==
  \E h \in Hooks :
    /\ isOnline
    /\ HasRoom(h)
    /\ closure[h].syncManager /\ user # NoUser /\ closure[h].isOnline
    /\ PerformSync(h, closure[h])
    /\ UNCHANGED <<syncManager, closure, isOnline, coreVars, run>>

\* the Sync button of the OfflineIndicator that Index renders
ManualSync ==
  /\ ~closure["Index"].isSyncing
  /\ HasRoom("Index")
  /\ PerformSync("Index", closure["Index"])
  /\ UNCHANGED <<syncManager, closure, isOnline, coreVars, run>>

HookNetworkChange ==
  /\ isOnline' = ~isOnline
  /\ UNCHANGED <<hookVars, coreVars, run>>

\* syncToServer of a call in flight resolves; syncFromServer starts
DrainDone ==
  \E h \in Hooks :
    /\ inflight[h].drain > 0
    /\ inflight' = [inflight EXCEPT ![h] = [drain |-> @.drain - 1, pull |-> @.pull + 1]]
    /\ UNCHANGED <<syncManager, isSyncing, closure, isOnline, coreVars, run>>

\* syncFromServer resolves; the finally block calls setIsSyncing(false)
PullDone ==
  \E h \in Hooks :
    /\ inflight[h].pull > 0
    /\ inflight' = [inflight EXCEPT ![h].pull = @ - 1]
    /\ isSyncing' = [isSyncing EXCEPT ![h] = FALSE]
    /\ UNCHANGED <<syncManager, closure, isOnline, coreVars, run>>

SyncNext ==
  \/ HookInitStorage
  \/ Render
  \/ HandleNetworkRestored
  \/ ManualSync
  \/ HookNetworkChange
  \/ DrainDone
  \/ PullDone

SyncSpec == Init /\ [][SyncNext]_vars

\* ------------------------------------------------------- a sync in flight
\* performFullSync followed through its awaits, with the handlers of the
\* notes repository running between them.  The network stays available and
\* the selects of the pull succeed.
raceOther == <<now, isOnline, offlineStorage, usedIds, last, hookVars>>

\* what is left of the run once the first item is done with
AfterItem(r) ==
  [r EXCEPT !.items = Tail(@), !.stage = "process",
            !.phase = IF Len(r.items) = 1 THEN "pull" ELSE "drain"]

\* performFullSync starts: syncToServer passes the network check and takes
\* its snapshot of the outbox
StartSync ==
  /\ run.phase \in {"idle", "done"}
  /\ offlineStorage["notes"] /\ user # NoUser /\ isOnline
  /\ LET items == ProcessingOrder(GetSyncQueue(db))
     IN run' = [NoRun EXCEPT !.items = items,
                            !.phase = IF items = <<>> THEN "pull" ELSE "drain"]
  /\ UNCHANGED <<db, supabase, raceOther>>

\* await this.processOperation(...) for the first item left, or the catch
ProcessStep ==
  \E net \in NetOutcomes :
    /\ run.phase = "drain" /\ run.stage = "process"
    /\ LET item == Head(run.items)
           r == ProcessOperation(supabase, item.table, item.type, item.data, net)
       IN /\ supabase' = r.remote
          /\ run' = IF r.error
                    THEN [AfterItem(run) EXCEPT !.conflicts = Append(@, item.id)]
                    ELSE [run EXCEPT !.stage = "remove"]
    /\ UNCHANGED <<db, raceOther>>

\* await this.offlineStorage.removeSyncQueueItem(item.id)
RemoveStep ==
  /\ run.phase = "drain" /\ run.stage = "remove"
  /\ db' = RemoveSyncQueueItem(db, Head(run.items).id)
  /\ run' = [run EXCEPT !.stage = "mark"]
  /\ UNCHANGED <<supabase, raceOther>>

\* await this.offlineStorage.markAsSynced(table, item.data.id)
MarkStep ==
  /\ run.phase = "drain" /\ run.stage = "mark"
  /\ db' = MarkAsSynced(db, Head(run.items).table, Head(run.items).data.id)
  /\ run' = AfterItem(run)
  /\ UNCHANGED <<supabase, raceOther>>

\* syncFromServer: the two selects resolve
PullSelect ==
  /\ run.phase = "pull"
  /\ run' = [run EXCEPT !.phase = "write",
                        !.rows = [notes |-> SelectByUser(supabase, "notes", user),
                                  notebooks |-> SelectByUser(supabase, "notebooks", user)]]
  /\ UNCHANGED <<db, supabase, raceOther>>

\* syncFromServer: the two bulkUpdateFromServer calls; performFullSync returns
PullWrite ==
  /\ run.phase = "write"
  /\ db' = BulkUpdateFromServer(BulkUpdateFromServer(db, "notes", run.rows.notes),
                                "notebooks", run.rows.notebooks)
  /\ run' = [run EXCEPT !.phase = "done"]
  /\ UNCHANGED <<supabase, raceOther>>

\* updateNote of the notes repository, whether a sync is in flight or not
EditNote ==
  \E id \in Ids, updates \in UpdateInputs("notes"), remoteOk \in RemoteOutcomes :
    /\ QueueHasRoom
    /\ UpdateIn("notes", id, updates, remoteOk)
    /\ run' = IF run.phase \in {"drain", "pull", "write"} /\ id \in DOMAIN db.notes
              THEN [run EXCEPT !.during = @ \cup {[id |-> id, updates |-> updates]}]
              ELSE run
    /\ UNCHANGED <<now, isOnline, offlineStorage, usedIds, hookVars>>

RaceNext ==
  \/ Tick
  \/ InitStorage
  \/ createNote
  \/ EditNote
  \/ StartSync
  \/ ProcessStep
  \/ RemoveStep
  \/ MarkStep
  \/ PullSelect
  \/ PullWrite

RaceSpec == Init /\ [][RaceNext]_vars

\* ------------------------------------------------------- a reachable remote
\* The network stays available and syncs keep being triggered: the requests
\* of every drain and the selects of every pull are answered.  The
\* repository calls may still fail remotely, and the local store may fail
\* in the middle of a create.

\* createNote online when the insert succeeds and the saveNote after it
\* throws: the catch creates the note offline, under the id just inserted
CreateSaveFails(table, noteData, id) ==
  LET newNote == Spread(noteData, [id |-> id, user_id |-> user, updated_at |-> now])
      ins == RemoteInsert(supabase, table, newNote, TRUE)
      saved == StorageCreateNote(db, table, newNote)
  IN /\ offlineStorage[table] /\ user # NoUser /\ isOnline
     /\ ~ins.error
     /\ usedIds' = usedIds \cup {id}
     /\ supabase' = ins.remote
     /\ db' = saved.db
     /\ last' = [NoLast EXCEPT !.op = "create", !.table = table, !.id = id,
                   !.args = noteData, !.path = "fallback",
                   !.ret = {saved.noteData}, !.requests = 1,
                   !.storeError = TRUE]

createNoteSaveFails ==
  \E noteData \in NoteInputs("notes"), id \in Ids \ usedIds :
    /\ QueueHasRoom
    /\ CreateSaveFails("notes", noteData, id)
    /\ UNCHANGED <<now, isOnline, offlineStorage, hookVars, run>>

\* performSync() passes its guard and calls performFullSync
TriggerSync ==
  /\ run.phase = "idle"
  /\ offlineStorage["notes"] /\ user # NoUser /\ isOnline
  /\ run' = [run EXCEPT !.phase = "due"]
  /\ UNCHANGED <<db, supabase, raceOther>>

\* the performFullSync that was called runs, all of its requests answered
SyncReachable ==
  /\ run.phase = "due"
  /\ PerformFullSyncWith([k \in DOMAIN db.sync_queue |-> "ok"], TRUE, FALSE, FALSE, FALSE)
  /\ run' = [run EXCEPT !.phase = "idle"]
  /\ UNCHANGED <<now, isOnline, offlineStorage, usedIds, hookVars>>

LiveNext ==
  \/ Tick
  \/ InitStorage
  \/ createNote
  \/ createNoteSaveFails
  \/ updateNote
  \/ deleteNote
  \/ TriggerSync
  \/ SyncReachable

\* syncs keep being triggered
LiveSpec == Init /\ [][LiveNext]_vars /\ WF_vars(TriggerSync)

\* ------------------------------------------------------- a failing local store
\* The drain when the operations of the local store can be rejected.  The
\* try of one item covers three awaits: processOperation,
\* removeSyncQueueItem and markAsSynced; a rejection of any of them ends in
\* the catch that records the conflict.
StoreOutcomes == {"ok", "remove", "mark"}

\* The body of the inner loop for one item, store naming the operation of
\* the local store that is rejected ("remove": removeSyncQueueItem, "mark":
\* markAsSynced, after the entry was removed).
ProcessItemStore(st, item, net, store) ==
  LET r == ProcessOperation(st.remote, item.table, item.type, item.data, net)
      event == [item |-> item.id,
                data |-> item.data,
                before |-> Get(st.remote[item.table], item.data.id),
                after |-> Get(r.remote[item.table], item.data.id),
                net |-> net,
                did |-> r.did,
                error |-> r.error]
  IN IF r.error
     THEN [st EXCEPT !.conflicts = Append(@, item.id),
                     !.log = Append(@, event)]
     ELSE IF store = "remove"
     THEN [remote |-> r.remote,
           db |-> st.db,
           conflicts |-> Append(st.conflicts, item.id),
           log |-> Append(st.log, event)]
     ELSE IF store = "mark"
     THEN [remote |-> r.remote,
           db |-> RemoveSyncQueueItem(st.db, item.id),
           conflicts |-> Append(st.conflicts, item.id),
           log |-> Append(st.log, event)]
     ELSE [remote |-> r.remote,
           db |-> MarkAsSynced(RemoveSyncQueueItem(st.db, item.id),
                               item.table, item.data.id),
           conflicts |-> st.conflicts,
           log |-> Append(st.log, event)]

\* the nested loops of syncToServer, each item with the outcome of its
\* request and of its local store operations
RECURSIVE DrainItemsStore(_, _, _, _)
DrainItemsStore(items, st, net, store) ==
  IF items = <<>> THEN st
  ELSE DrainItemsStore(Tail(items),
                       ProcessItemStore(st, Head(items), net[Head(items).id],
                                        store[Head(items).id]),
                       net, store)

\* performFullSync(user.id) with the network available: the drain of the
\* snapshot, then the pull, whose selects and writes succeed
PerformFullSyncStore(net, store) ==
  LET syncQueue == GetSyncQueue(db)
      st == DrainItemsStore(ProcessingOrder(syncQueue),
                            [remote |-> supabase, db |-> db, conflicts |-> <<>>,
                             log |-> <<>>],
                            net, store)
  IN /\ db' = SyncFromServer(st.db, st.remote, user, TRUE, FALSE, FALSE, FALSE)
     /\ supabase' = st.remote
     /\ last' = [NoLast EXCEPT !.op = "performFullSync",
                   !.success = TRUE,
                   !.conflicts = st.conflicts,
                   !.log = st.log,
                   !.requests = Len(st.log),
                   !.pulled = TRUE,
                   !.storeError = \E k \in DOMAIN store : store[k] # "ok"]

performFullSyncStore ==
  \E net \in [DOMAIN db.sync_queue -> NetOutcomes],
     store \in [DOMAIN db.sync_queue -> StoreOutcomes] :
    /\ offlineStorage["notes"] /\ isOnline
    /\ PerformFullSyncStore(net, store)
    /\ UNCHANGED <<now, isOnline, offlineStorage, usedIds, hookVars, run>>

StoreNext ==
  \/ Tick
  \/ NetworkChange
  \/ InitStorage
  \/ createNote
  \/ updateNote
  \/ deleteNote
  \/ performFullSyncStore

StoreSpec == Init /\ [][StoreNext]_vars

\* ------------------------------------------------------- the isSyncing gate
\* performSync of the hook instances followed to its finally block: the
\* awaited performFullSync resolves with success: true, resolves with
\* success: false, or rejects.  last records how the last performSync ended.

\* mutant: a rejected performFullSync skips setIsSyncing(false)
PerformFullSyncRejects_NoFinally(h) ==
  /\ inflight[h].drain > 0
  /\ inflight' = [inflight EXCEPT ![h].drain = @ - 1]
  /\ last' = [NoLast EXCEPT !.op = "performSync", !.path = "threw"]
  /\ UNCHANGED <<syncManager, isSyncing, closure, isOnline, now, offlineStorage, db,
                 supabase, usedIds, run>>

\* getSyncQueue is awaited outside the try of syncToServer: when it rejects,
\* syncToServer and performFullSync reject, and performSync runs its catch
\* and then its finally block
PerformFullSyncRejects(h) ==
  /\ inflight[h].drain > 0
  /\ inflight' = [inflight EXCEPT ![h].drain = @ - 1]
  /\ isSyncing' = [isSyncing EXCEPT ![h] = FALSE]
  /\ last' = [NoLast EXCEPT !.op = "performSync", !.path = "threw"]
  /\ UNCHANGED <<syncManager, closure, isOnline, now, offlineStorage, db,
                 supabase, usedIds, run>>

\* syncToServer of a call in flight resolves; syncFromServer starts
SyncToServerResolves(h) ==
  /\ inflight[h].drain > 0
  /\ inflight' = [inflight EXCEPT ![h] = [drain |-> @.drain - 1, pull |-> @.pull + 1]]
  /\ UNCHANGED <<syncManager, isSyncing, closure, isOnline, coreVars, run>>

\* syncFromServer resolves (it never rejects) and performFullSync resolves
\* with the result of the drain: success is false when the network was
\* unavailable as syncToServer started.  Either branch of performSync ends
\* in the finally block.
PerformFullSyncResolves(h, success) ==
  /\ inflight[h].pull > 0
  /\ inflight' = [inflight EXCEPT ![h].pull = @ - 1]
  /\ isSyncing' = [isSyncing EXCEPT ![h] = FALSE]
  /\ last' = [NoLast EXCEPT !.op = "performSync", !.success = success,
                !.path = IF success THEN "synced" ELSE "failed"]
  /\ UNCHANGED <<syncManager, closure, isOnline, now, offlineStorage, db,
                 supabase, usedIds, run>>

DrainResolves == \E h \in Hooks : SyncToServerResolves(h)

DrainRejects == \E h \in Hooks : PerformFullSyncRejects(h)

SyncSucceeds == \E h \in Hooks : PerformFullSyncResolves(h, TRUE)

SyncFails == \E h \in Hooks : PerformFullSyncResolves(h, FALSE)

GateNext ==
  \/ HookInitStorage
  \/ Render
  \/ HandleNetworkRestored
  \/ ManualSync
  \/ HookNetworkChange
  \/ DrainResolves
  \/ DrainRejects
  \/ SyncSucceeds
  \/ SyncFails

\* Every awaited promise settles, and React renders an instance again after
\* its state changed.
GateSpec ==
  /\ Init /\ [][GateNext]_vars
  /\ \A h \in Hooks :
       /\ WF_vars(SyncToServerResolves(h) \/ PerformFullSyncRejects(h))
       /\ WF_vars(PerformFullSyncResolves(h, TRUE) \/ PerformFullSyncResolves(h, FALSE))
       /\ WF_vars(Render /\ closure'[h] # closure[h])

\* ------------------------------------------------------- properties
\* The last handler was a performFullSync whose drain ran (network available).
SyncDone == last.op = "performFullSync" /\ last.success

RowOf(rows) == CHOOSE r \in rows : TRUE

IsUpdate(e) == e.item[2] = "update"

IsCreate(e) == e.item[2] = "create"

EntityTable(e) == e.item[1]

EntityId(e) == e.item[3]

SameDomainFields(table, a, b) == \A f \in DomainFields(table) : a[f] = b[f]

\* the remote record the item met was strictly newer than the item's local time
RemoteNewer(e) ==
  e.before # {} /\ RowOf(e.before).updated_at > LocalTime(e.data)

\* C1 (as claimed): Scenario B.  When a drain replays exactly two update
\* entries of one note, the first changing the title and the second the
\* content, against a remote record that is not newer than the first entry,
\* then after the sync the remote record carries the field values of the
\* second (final) payload and the local note is synced.
C1_ScenarioB ==
  (/\ SyncDone
   /\ Len(last.log) = 2
   /\ IsUpdate(last.log[1]) /\ IsUpdate(last.log[2])
   /\ EntityTable(last.log[1]) = "notes" /\ EntityTable(last.log[2]) = "notes"
   /\ EntityId(last.log[1]) = EntityId(last.log[2])
   /\ ~last.log[1].error /\ ~last.log[2].error
   /\ last.log[1].before # {}
   /\ ~RemoteNewer(last.log[1])
   /\ last.log[1].data.title # RowOf(last.log[1].before).title
   /\ last.log[2].data.content # last.log[1].data.content)
  => LET id == EntityId(last.log[2])
     IN /\ id \in DOMAIN supabase.notes
        /\ SameDomainFields("notes", supabase.notes[id], last.log[2].data)
        /\ id \in DOMAIN db.notes
        /\ db.notes[id].sync_status = "synced"

\* C2: remote wins.  An update entry whose requests the remote store
\* answers and that meets a remote record whose updated_at is greater than
\* the entry's local time does not write the remote record (content and
\* updated_at unchanged), is removed from the outbox, and leaves the local
\* entity synced.
C2_RemoteWins ==
  SyncDone =>
    \A i \in 1..Len(last.log) :
      LET e == last.log[i]
      IN (IsUpdate(e) /\ e.net = "ok" /\ RemoteNewer(e)) =>
           /\ ~e.error
           /\ e.after = e.before
           /\ e.item \notin DOMAIN db.sync_queue
           /\ EntityId(e) \in DOMAIN db[EntityTable(e)] =>
                db[EntityTable(e)][EntityId(e)].sync_status = "synced"

C2_Witness ==
  /\ SyncDone
  /\ \E i \in 1..Len(last.log) :
       /\ IsUpdate(last.log[i]) /\ last.log[i].net = "ok" /\ RemoteNewer(last.log[i])
       /\ EntityId(last.log[i]) \in DOMAIN db[EntityTable(last.log[i])]

\* C3 (as claimed): on a tie between the entry's local time and the remote
\* updated_at the remote wins: the drain leaves the remote record as it was.
C3_TieRemoteWins ==
  SyncDone =>
    \A i \in 1..Len(last.log) :
      LET e == last.log[i]
      IN (/\ IsUpdate(e) /\ ~e.error /\ e.before # {}
          /\ RowOf(e.before).updated_at = LocalTime(e.data))
         => e.after = e.before

\* C3 (amended): the remote wins only when it is strictly newer.  An update
\* entry whose local time is equal to (or greater than) the remote updated_at
\* overwrites the remote record with its payload and stamps updated_at with
\* the time of the drain.
C3_TieLocalWins ==
  SyncDone =>
    \A i \in 1..Len(last.log) :
      LET e == last.log[i]
      IN (/\ IsUpdate(e) /\ ~e.error /\ e.before # {}
          /\ RowOf(e.before).updated_at <= LocalTime(e.data))
         => /\ e.after # {}
            /\ SameDomainFields(EntityTable(e), RowOf(e.after), e.data)
            /\ RowOf(e.after).updated_at = now

C3_Witness ==
  /\ SyncDone
  /\ \E i \in 1..Len(last.log) :
       /\ IsUpdate(last.log[i]) /\ ~last.log[i].error /\ last.log[i].before # {}
       /\ RowOf(last.log[i].before).updated_at = LocalTime(last.log[i].data)
       /\ last.log[i].after # last.log[i].before

\* the keys of the outbox entries of one entity
EntriesFor(d, table, id) == {k \in DOMAIN d.sync_queue : k[1] = table /\ k[3] = id}

\* First half of C4: a create made offline leaves the entity in the local
\* store with sync_status = pending and one create entry for it in the outbox.
C4_CreatedOffline ==
  (last.op = "create" /\ last.path = "offline") =>
    /\ last.id \in DOMAIN db[last.table]
    /\ db[last.table][last.id].sync_status = "pending"
    /\ Cardinality(EntriesFor(db, last.table, last.id)) = 1
    /\ \A k \in EntriesFor(db, last.table, last.id) : k[2] = "create"

\* Second half of C4: when a performFullSync runs with the network available
\* on an entity that is pending with its create entry as its only outbox
\* entry, and the remote store accepts the insert, then afterwards the
\* outbox holds no entry of the entity (no entry at all when no item of the
\* drain failed), the entity is present remotely with the content the local
\* store holds, that content is the one it held before, and it is synced.
C4_SyncStep ==
  \A table \in Tables, id \in Ids :
    (/\ id \in DOMAIN db[table]
     /\ db[table][id].sync_status = "pending"
     /\ Cardinality(EntriesFor(db, table, id)) = 1
     /\ \A k \in EntriesFor(db, table, id) : k[2] = "create"
     /\ last'.op = "performFullSync" /\ last'.success
     /\ \E i \in 1..Len(last'.log) :
          /\ last'.log[i].item \in EntriesFor(db, table, id)
          /\ last'.log[i].net = "ok")
    => /\ EntriesFor(db', table, id) = {}
       /\ last'.conflicts = <<>> => DOMAIN db'.sync_queue = {}
       /\ id \in DOMAIN supabase'[table]
       /\ id \in DOMAIN db'[table]
       /\ SameDomainFields(table, supabase'[table][id], db'[table][id])
       /\ SameDomainFields(table, db'[table][id], db[table][id])
       /\ db'[table][id].sync_status = "synced"

\* C4: eventual consistency of an entity created offline (Scenario A): every
\* step ends in a state satisfying the first half and satisfies the second.
C4_EventualConsistency == [][C4_CreatedOffline' /\ C4_SyncStep]_vars

C4_Witness ==
  /\ SyncDone
  /\ Len(last.log) = 1
  /\ IsCreate(last.log[1]) /\ ~last.log[1].error
  /\ EntityId(last.log[1]) \in DOMAIN supabase[EntityTable(last.log[1])]
  /\ EntityId(last.log[1]) \in DOMAIN db[EntityTable(last.log[1])]
  /\ db.sync_queue = EmptyStore

\* C5: no partial create loss.  In every drain that runs, each entry of the
\* outbox is attempted, and a create entry whose remote insert fails is
\* still in the outbox afterwards, unchanged, with a conflict recorded for it.
C5_NoPartialCreateLoss ==
  [][
  (last'.op = "performFullSync" /\ last'.success) =>
    /\ \A k \in DOMAIN db.sync_queue :
         \E i \in 1..Len(last'.log) : last'.log[i].item = k
    /\ \A i \in 1..Len(last'.log) :
         LET e == last'.log[i]
         IN (IsCreate(e) /\ e.error) =>
              /\ e.item \in DOMAIN db'.sync_queue
              /\ db'.sync_queue[e.item] = db.sync_queue[e.item]
              /\ \E j \in 1..Len(last'.conflicts) : last'.conflicts[j] = e.item
  ]_vars

C5_Witness ==
  /\ SyncDone
  /\ \E i \in 1..Len(last.log) :
       /\ IsCreate(last.log[i]) /\ last.log[i].error
       /\ last.log[i].item \in DOMAIN db.sync_queue

\* C6: read-your-write.  When create or update returned an entity, the local
\* store holds a record with that id whose fields carry the values written.
C6_ReadYourWrite ==
  (last.op \in {"create", "update"} /\ last.ret # {}) =>
    /\ last.id \in DOMAIN db[last.table]
    /\ \A f \in DOMAIN last.args : db[last.table][last.id][f] = last.args[f]

C6_Witness ==
  /\ last.op = "update" /\ last.path = "fallback" /\ last.ret # {}
  /\ last.id \in DOMAIN db[last.table]

\* no outbox entry and no entity that is not synced
NoPendingChanges(d) ==
  /\ DOMAIN d.sync_queue = {}
  /\ \A table \in Tables : \A id \in DOMAIN d[table] :
       d[table][id].sync_status = "synced"

\* C7 (as claimed): Scenario C.  A pull that completes from a state with no
\* local pending change leaves the local tables holding exactly the remote
\* records, each synced and without local_updated_at.
C7_PullMirrorsRemote ==
  [][
  (last'.op = "performFullSync" /\ last'.pulled /\ NoPendingChanges(db)) =>
    \A table \in Tables :
      /\ DOMAIN db'[table] = DOMAIN supabase'[table]
      /\ \A id \in DOMAIN db'[table] :
           /\ db'[table][id].sync_status = "synced"
           /\ "local_updated_at" \notin DOMAIN db'[table][id]
  ]_vars

\* C8 (as claimed): a create or update whose remote call succeeded leaves the
\* entity in the local store with sync_status = synced and no local_updated_at.
C8_OnlineSuccessSynced ==
  (last.op \in {"create", "update"} /\ last.path = "online") =>
    /\ last.id \in DOMAIN db[last.table]
    /\ db[last.table][last.id].sync_status = "synced"
    /\ "local_updated_at" \notin DOMAIN db[last.table][last.id]

\* C9 (as claimed): every create returns the new entity, which is stored
\* locally; none returns null.
C9_CreateAlwaysReturns ==
  last.op = "create" =>
    /\ last.ret # {}
    /\ \A r \in last.ret : r.id \in DOMAIN db[last.table]

\* C10: an update of an id that the local store does not hold returns null,
\* issues no remote request and leaves the local tables, the outbox and the
\* remote store as they were.
C10_UpdateAbsent ==
  [][
  (last'.op = "update" /\ last'.id \notin DOMAIN db[last'.table]) =>
    /\ last'.ret = {}
    /\ last'.requests = 0
    /\ db' = db
    /\ supabase' = supabase
  ]_vars

C10_Witness == last.op = "update" /\ last.path = "absent" /\ isOnline

\* C11: a delete of an entity the local store holds removes the local copy
\* whether the client is offline, the remote delete succeeded or it failed;
\* when the client is offline or the remote delete failed, the call puts one
\* delete entry for that id, stamped with the current time, into the outbox
\* and leaves the other entries as they were.
C11_DeleteRemovesLocal ==
  [][
  (last'.op = "delete" /\ last'.id \in DOMAIN db[last'.table]) =>
    LET table == last'.table
        id == last'.id
        key == QueueKey(table, "delete", id)
    IN /\ last'.path \in {"offline", "online", "fallback"}
       /\ id \notin DOMAIN db'[table]
       /\ last'.path \in {"offline", "fallback"} =>
            /\ DOMAIN db'.sync_queue = DOMAIN db.sync_queue \cup {key}
            /\ db'.sync_queue[key].type = "delete"
            /\ db'.sync_queue[key].table = table
            /\ db'.sync_queue[key].data.id = id
            /\ \A k \in DOMAIN db.sync_queue \ {key} :
                 db'.sync_queue[k] = db.sync_queue[k]
            /\ supabase' = supabase
  ]_vars

C11_Witness ==
  /\ last.op = "delete" /\ last.path = "fallback" /\ last.found
  /\ last.id \notin DOMAIN db[last.table]
  /\ QueueKey(last.table, "delete", last.id) \in DOMAIN db.sync_queue

IsDelete(e) == e.item[2] = "delete"

\* C12: idempotent delete.  A delete of an id the local store does not hold
\* completes and leaves the local tables and the outbox as they were; and a
\* drained delete entry whose id the remote store does not hold, the request
\* being answered, is a success: the entry leaves the outbox and no conflict
\* is recorded for it.
C12_IdempotentDelete ==
  [][
  /\ (last'.op = "delete" /\ last'.id \notin DOMAIN db[last'.table]) =>
       /\ db' = db
       /\ ~last'.found
  /\ (last'.op = "performFullSync" /\ last'.success) =>
       \A i \in 1..Len(last'.log) :
         LET e == last'.log[i]
         IN (IsDelete(e) /\ e.before = {} /\ e.net = "ok") =>
              /\ ~e.error
              /\ e.after = {}
              /\ e.item \notin DOMAIN db'.sync_queue
              /\ \A j \in 1..Len(last'.conflicts) : last'.conflicts[j] # e.item
  ]_vars

C12_Witness ==
  /\ SyncDone
  /\ \E i \in 1..Len(last.log) :
       /\ IsDelete(last.log[i]) /\ last.log[i].before = {} /\ last.log[i].net = "ok"
       /\ last.log[i].item \notin DOMAIN db.sync_queue

\* C13: data-model invariant.  In every reachable state every note and
\* notebook of the local store with sync_status = synced has no
\* local_updated_at.
C13_SyncedHasNoLocalTime ==
  \A table \in Tables : \A id \in DOMAIN db[table] :
    db[table][id].sync_status = "synced" =>
      "local_updated_at" \notin DOMAIN db[table][id]

C13_Witness ==
  /\ SyncDone
  /\ \E i \in 1..Len(last.log) :
       LET e == last.log[i]
       IN /\ ~e.error
          /\ "local_updated_at" \in DOMAIN e.data
          /\ EntityId(e) \in DOMAIN db[EntityTable(e)]
          /\ db[EntityTable(e)][EntityId(e)].sync_status = "synced"

\* C14: performFullSync runs the drain and then the pull.  It returns the
\* drain's result, whatever the pull did: success is whether the network was
\* available when the drain started, and conflicts lists the items whose
\* processing failed, in the order they were processed.  The pull runs also
\* after a drain that returned success = FALSE: whenever the network is
\* available at the pull and neither a select nor the local store fails,
\* the pull completes, and the local store then holds every row that the
\* remote store holds after the drain.
C14_DrainThenPull ==
  [][
  last'.op = "performFullSync" =>
    LET errs == SelectSeq(last'.log, LAMBDA e : e.error)
    IN /\ last'.success = isOnline
       /\ last'.conflicts = [i \in 1..Len(errs) |-> errs[i].item]
       /\ ~last'.threw
       /\ last'.pulled = (isOnline' /\ ~last'.pullError /\ ~last'.storeError)
       /\ (isOnline' /\ ~last'.pullError /\ ~last'.storeError) =>
            \A table \in Tables : \A id \in DOMAIN supabase'[table] :
              /\ id \in DOMAIN db'[table]
              /\ db'[table][id] = Spread(supabase'[table][id], [sync_status |-> "synced"])
  ]_vars

C14_Witness ==
  /\ last.op = "performFullSync" /\ ~last.success /\ last.pulled
  /\ \E table \in Tables : \E id \in DOMAIN supabase[table] :
       /\ id \in DOMAIN db[table]
       /\ db[table][id].sync_status = "synced"
  /\ DOMAIN db.sync_queue # {}

RECURSIVE RunsInFlight(_)
RunsInFlight(hooks) ==
  IF hooks = {} THEN 0
  ELSE LET h == CHOOSE x \in hooks : TRUE
       IN inflight[h].drain + inflight[h].pull + RunsInFlight(hooks \ {h})

\* C15 (as claimed): sync attempts are serialized.  In every state at most
\* one performFullSync call is in flight on the outbox, over all the
\* instances of the notes hook and all the triggers.
C15_SerializedSync == RunsInFlight(Hooks) <= 1

\* C16: a remote failure during a create, update or delete called online
\* does not surface as an exception.  The call returns normally after the
\* offline path: a created or updated entity is returned and stored with
\* sync_status = pending, a deleted one that the local store held is gone
\* from it, and the outbox holds an entry of the operation's kind for the
\* entity stamped with the current time.
C16_RemoteFailureFallsBack ==
  (last.op \in {"create", "update", "delete"} /\ last.path = "fallback") =>
    LET table == last.table
        id == last.id
    IN /\ ~last.threw
       /\ last.requests = 1
       /\ last.op \in {"create", "update"} =>
            /\ \E r \in last.ret : r.id = id /\ r.sync_status = "pending"
            /\ id \in DOMAIN db[table]
            /\ db[table][id].sync_status = "pending"
            /\ QueueKey(table, last.op, id) \in DOMAIN db.sync_queue
            /\ db.sync_queue[QueueKey(table, last.op, id)].data = db[table][id]
       /\ (last.op = "delete" /\ last.found) =>
            /\ id \notin DOMAIN db[table]
            /\ QueueKey(table, "delete", id) \in DOMAIN db.sync_queue

C16_Witness ==
  /\ last.op = "create" /\ last.path = "fallback" /\ last.requests = 1
  /\ last.id \in DOMAIN db[last.table]
  /\ last.id \notin DOMAIN supabase[last.table]

\* C17 (as claimed): a failure of the local store is not swallowed.  When an
\* operation of the local store failed during a call, the call ended with
\* an exception.
C17_StoreFailurePropagates == last.storeError => last.threw

\* C19 (as claimed): a drain issues the remote operations of the outbox
\* entries in the order the entries were enqueued: no entry is processed
\* before an entry that was enqueued at an earlier time.
C19_EnqueueOrder ==
  SyncDone =>
    \A i, j \in 1..Len(last.log) :
      i < j => last.log[i].item[4] <= last.log[j].item[4]

\* the number of addToSyncQueue calls the last repository call made
EnqueueCalls ==
  IF last.op \in {"create", "update"} THEN (IF last.ret = {} THEN 0 ELSE 1)
  ELSE IF last.op = "delete" THEN (IF last.found THEN 1 ELSE 0)
  ELSE 0

\* C20 (as claimed): the outbox never collapses mutations.  Every
\* addToSyncQueue call of a repository call adds one entry to the outbox,
\* also when an entry of the same entity and kind was enqueued at the same
\* time.
C20_NoCollapse ==
  [][
  last'.op \in {"create", "update", "delete"} =>
    Cardinality(DOMAIN db'.sync_queue) = Cardinality(DOMAIN db.sync_queue) + EnqueueCalls'
  ]_vars

\* the remote table that holds the archived copies of a table's records
ArchiveTable(table) == IF table = "notes" THEN "archived_notes" ELSE "archived_notebooks"

\* C18 (as claimed): archive preserves the record for restore.  After an
\* archive call that removed a note or notebook, the archive holds a copy
\* that carries the record's id, from which a restore can put the record
\* back.
C18_ArchiveKeepsCopy ==
  (last.op = "archive" /\ last.found) =>
    \E k \in DOMAIN supabase[ArchiveTable(last.table)] :
      supabase[ArchiveTable(last.table)][k].original_id = last.id

\* C21: no short-circuit.  In a drain that runs, the failure of one entry
\* does not stop the drain: every entry of the snapshot is attempted, and
\* each entry that succeeds is gone from the outbox afterwards and its
\* entity, if the local store holds it, is synced.
C21_NoShortCircuit ==
  [][
  (last'.op = "performFullSync" /\ last'.success) =>
    /\ {last'.log[i].item : i \in 1..Len(last'.log)} = DOMAIN db.sync_queue
    /\ Len(last'.log) = Cardinality(DOMAIN db.sync_queue)
    /\ \A i \in 1..Len(last'.log) :
         LET e == last'.log[i]
         IN ~e.error =>
              /\ e.item \notin DOMAIN db'.sync_queue
              /\ EntityId(e) \in DOMAIN db'[EntityTable(e)] =>
                   db'[EntityTable(e)][EntityId(e)].sync_status = "synced"
  ]_vars

C21_Witness ==
  /\ SyncDone
  /\ Len(last.log) = 2
  /\ last.log[1].error /\ ~last.log[2].error
  /\ last.log[1].item \in DOMAIN db.sync_queue
  /\ last.log[2].item \notin DOMAIN db.sync_queue
  /\ EntityId(last.log[2]) \in DOMAIN db[EntityTable(last.log[2])]

\* C22 (as claimed): outbox entries are created only on the offline path or
\* the failed-online path.  A create, update or delete that is called online
\* and whose remote call succeeds leaves the outbox unchanged.
C22_OnlineSuccessNoEntry ==
  [][
  (last'.op \in {"create", "update", "delete"} /\ last'.path = "online") =>
    db'.sync_queue = db.sync_queue
  ]_vars

\* C23: a drain called while the network is unavailable returns
\* {success: false, conflicts: []}, issues no request and leaves the outbox,
\* the remote store and the local entities as they were (the local store
\* after the call is what the pull alone makes of the store before it); a
\* drain called while the network is available returns success: true also
\* when entries failed, and every failed entry is in conflicts.
C23_DrainResult ==
  [][
  last'.op = "performFullSync" =>
    /\ ~isOnline =>
         /\ ~last'.success
         /\ last'.conflicts = <<>>
         /\ last'.log = <<>>
         /\ supabase' = supabase
         /\ db'.sync_queue = db.sync_queue
         /\ db' = SyncFromServer(db, supabase, user, last'.pulled, FALSE, FALSE, FALSE)
    /\ isOnline =>
         /\ last'.success
         /\ \A i \in 1..Len(last'.log) :
              last'.log[i].error <=>
                \E j \in 1..Len(last'.conflicts) : last'.conflicts[j] = last'.log[i].item
  ]_vars

C23_Witness ==
  /\ last.op = "performFullSync" /\ last.success
  /\ last.conflicts # <<>>
  /\ \E i \in 1..Len(last.log) : IsUpdate(last.log[i]) /\ last.log[i].error

\* the fields that only the local store keeps
LocalOnlyFields == {"local_updated_at", "sync_status"}

\* C24 (as claimed): when a drain overwrites the remote record for an update
\* entry, the data sent to the remote store contains no local-only
\* bookkeeping field (local_updated_at, the local sync_status tag), and the
\* remote updated_at after the write is the time of the drain and not older
\* than the value it replaces.
C24_CleanUpdatePayload ==
  SyncDone =>
    \A i \in 1..Len(last.log) :
      LET e == last.log[i]
      IN (IsUpdate(e) /\ e.did = "update" /\ ~e.error /\ e.before # {}) =>
           /\ DOMAIN UpdatePayload(e.data) \cap LocalOnlyFields = {}
           /\ RowOf(e.after).updated_at = now
           /\ RowOf(e.after).updated_at >= RowOf(e.before).updated_at

\* the entities for which an item of the last drain succeeded: the ones
\* markAsSynced was called for
MarkedIn(log) ==
  {<<EntityTable(log[i]), EntityId(log[i])>> : i \in {j \in 1..Len(log) : ~log[j].error}}

\* C25: markAsSynced(table, id) on a stored record sets sync_status =
\* synced, removes local_updated_at and leaves every other field of the
\* record, every other record and the outbox as they were; on an id the
\* store does not hold it changes nothing and raises no error.  Stated on
\* the drains that no pull follows: afterwards the tables hold the same
\* ids, each record an item succeeded for differs from before in those two
\* fields only, every other record is unchanged, the outbox is the former
\* one without the succeeded items, and the call did not throw.
C25_MarkAsSyncedFrame ==
  [][
  (last'.op = "performFullSync" /\ last'.success /\ ~last'.pulled) =>
    /\ \A table \in Tables :
         /\ DOMAIN db'[table] = DOMAIN db[table]
         /\ \A id \in DOMAIN db[table] :
              IF <<table, id>> \in MarkedIn(last'.log)
              THEN /\ db'[table][id].sync_status = "synced"
                   /\ DOMAIN db'[table][id] = DOMAIN db[table][id] \ {"local_updated_at"}
                   /\ \A f \in DOMAIN db'[table][id] \ {"sync_status"} :
                        db'[table][id][f] = db[table][id][f]
              ELSE db'[table][id] = db[table][id]
    /\ DOMAIN db'.sync_queue \subseteq DOMAIN db.sync_queue
    /\ \A k \in DOMAIN db'.sync_queue : db'.sync_queue[k] = db.sync_queue[k]
    /\ \A i \in 1..Len(last'.log) :
         ~last'.log[i].error => last'.log[i].item \notin DOMAIN db'.sync_queue
    /\ ~last'.threw
  ]_vars

C25_Witness ==
  /\ SyncDone /\ ~last.pulled
  /\ \E i \in 1..Len(last.log) :
       LET e == last.log[i]
       IN /\ ~e.error
          /\ EntityId(e) \in DOMAIN db[EntityTable(e)]
          /\ db[EntityTable(e)][EntityId(e)].sync_status = "synced"
          /\ "local_updated_at" \notin DOMAIN db[EntityTable(e)][EntityId(e)]
          /\ db[EntityTable(e)][EntityId(e)].updated_at = e.data.updated_at
  /\ DOMAIN db.sync_queue # {}

\* C26 (as claimed): whenever a local entity has sync_status = synced (no
\* sync being in flight between two handlers), the remote store holds a
\* record with the same id whose domain fields equal the local ones.
C26_SyncedMatchesRemote ==
  \A table \in Tables : \A id \in DOMAIN db[table] :
    db[table][id].sync_status = "synced" =>
      /\ id \in DOMAIN supabase[table]
      /\ SameDomainFields(table, supabase[table][id], db[table][id])

\* C28 (as claimed): a locally deleted entity never reappears in the local
\* store.  An id that was given to an entity and that the local table no
\* longer holds (every created entity is stored locally, so the entity was
\* deleted) is not in the table after a performFullSync either.
C28_DeletedStaysDeleted ==
  [][
  last'.op = "performFullSync" =>
    \A table \in Tables : \A id \in usedIds :
      id \notin DOMAIN db[table] => id \notin DOMAIN db'[table]
  ]_vars

\* C29 (as claimed): whenever a local entity has sync_status = synced (no
\* sync being in flight between two handlers), the outbox holds no entry of
\* that entity.
C29_SyncedHasNoEntry ==
  \A table \in Tables : \A id \in DOMAIN db[table] :
    db[table][id].sync_status = "synced" => EntriesFor(db, table, id) = {}

\* C27 (as claimed): a local mutation made while a sync is in flight is not
\* lost.  When a performFullSync has returned, every update of a note that
\* ran between its snapshot of the outbox and the end of its pull is still
\* in the local store: the note holds the new field values with sync_status
\* = pending, and the outbox holds an update entry of the note that carries
\* them for a later drain.
C27_EditDuringSyncKept ==
  run.phase = "done" =>
    \A u \in run.during :
      /\ u.id \in DOMAIN db.notes
      /\ \A f \in DOMAIN u.updates : db.notes[u.id][f] = u.updates[f]
      /\ db.notes[u.id].sync_status = "pending"
      /\ \E k \in EntriesFor(db, "notes", u.id) :
           /\ k[2] = "update"
           /\ \A f \in DOMAIN u.updates : db.sync_queue[k].data[f] = u.updates[f]

\* C30 (as claimed): the outbox eventually empties.  While the network
\* stays available, syncs keep being triggered, every triggered sync runs
\* and the remote store answers all of its requests, the outbox is empty
\* again and again: no entry is rejected by every future drain and kept
\* forever.
C30_OutboxEmpties ==
  []<>(run.phase # "due") => []<>(DOMAIN db.sync_queue = {})

\* C31 (as claimed): drain accounting.  When a performFullSync has run
\* with the network available and nothing else touched the outbox, every
\* entry of the snapshot is either gone from the outbox or named in exactly
\* one conflict, never both and never neither, so the outbox afterwards has
\* as many entries as before minus the entries that are not in a conflict.
C31_DrainAccounting ==
  [][
  (last'.op = "performFullSync" /\ last'.success) =>
    LET snapshot == DOMAIN db.sync_queue
        after == DOMAIN db'.sync_queue
        conflicts == last'.conflicts
        Reported(k) == {i \in DOMAIN conflicts : conflicts[i] = k}
    IN /\ \A k \in snapshot :
            /\ (k \notin after) # (Reported(k) # {})
            /\ Cardinality(Reported(k)) <= 1
       /\ Cardinality(after)
            = Cardinality(snapshot) - (Cardinality(snapshot) - Len(conflicts))
  ]_vars

\* C32 (as claimed): a pull that is called offline, or whose fetch of notes
\* or of notebooks fails, leaves the whole local store unchanged.  After a
\* performFullSync whose pull returned early or ended in the catch of a
\* failed select, both tables and the outbox are as the drain left them:
\* no table was overwritten although the fetch of the other one failed.
C32_FailedPullKeepsStore ==
  [][
  (last'.op = "performFullSync" /\ ~last'.pulled /\ ~last'.storeError) =>
    \E net \in [DOMAIN db.sync_queue -> NetOutcomes] :
      LET uploadResult == SyncToServer(db, supabase, net)
      IN /\ uploadResult.conflicts = last'.conflicts
         /\ uploadResult.remote = supabase'
         /\ db' = uploadResult.db
  ]_vars

\* a pull failed on a select (of either table: both failures end in this
\* state) while the remote rows of the notes differed from the local
\* records, so that writing the notes alone would have shown
C32_Witness ==
  /\ last.op = "performFullSync" /\ last.pullError
  /\ BulkUpdateFromServer(db, "notes", SelectByUser(supabase, "notes", user)) # db

\* C33 (as claimed): the isSyncing gate is always released.  Whenever
\* isSyncing of a hook instance is true it is false again later, whether
\* the performFullSync in flight resolves with success, resolves with
\* success: false or rejects; and the isSyncing value that the guard of
\* performSync reads, the one closed over by the last render, is false
\* again later too, so a finished sync does not block a later request.
C33_GateReleased ==
  \A h \in Hooks :
    /\ isSyncing[h] ~> ~isSyncing[h]
    /\ closure[h].isSyncing ~> ~closure[h].isSyncing

\* a performSync whose performFullSync rejected has ended: nothing is in
\* flight and the gate of every instance is open
C33_Witness ==
  /\ last.op = "performSync" /\ last.path = "threw"
  /\ \A h \in Hooks : ~isSyncing[h] /\ inflight[h] = [drain |-> 0, pull |-> 0]

====
